---- MODULE Spec2Model ----
(***************************************************************************)
(* Input-dependency analyser: the module analysis cache                    *)
(* (CachedInputDependencyAnalysis), the library function table             *)
(* (LibraryInfoManager) and the non-deterministic reflecting basic block   *)
(* analyser (NonDeterministicReflectingBasicBlockAnaliser) as state        *)
(* machines, one specification per component.                              *)
(***************************************************************************)
EXTENDS Integers, Sequences, FiniteSets, TLC

VARIABLES
    m_module,            \* the functions of the module that have a body
    m_functionAnalisers, \* the cache: a set of <<function, summary>> entries
    runs,                \* number of run() calls made so far
    m_libraryInfo,       \* the library table: a set of <<name, model>> entries
    registered,          \* the names addLibFunctionInfo was called with
    m_nonDeterministicDeps,    \* the block's ambient context
    m_valueDependencies,       \* value -> stored dependency
    m_elementDependencies,     \* <<value, element>> -> stored dependency
    m_instructionDependencies, \* instruction -> stored dependency
    m_returnValueDependencies, \* the stored return value dependency
    m_is_inputDep,             \* the block is marked input dependent
    pc,                  \* where the driver of the cache is: before, in or after run()
    idx,                 \* the position of run()'s loop in the module
    calls,               \* the calls run() has made on function analysers
    operands,            \* three lattice elements, for the merge laws
    aborted,             \* a failed assert has ended the process
    ret                  \* the last call: operation, arguments, returned value

cacheVars == <<m_module, m_functionAnalisers, runs>>

libVars == <<m_libraryInfo, registered>>

blockVars == <<m_nonDeterministicDeps, m_valueDependencies, m_elementDependencies,
               m_instructionDependencies, m_returnValueDependencies, m_is_inputDep>>

driverVars == <<pc, idx, calls>>

vars == <<cacheVars, libVars, blockVars, driverVars, operands, aborted, ret>>

\* Each specification drives one component; the others stay as below.
NoCache ==
    /\ m_module = {}
    /\ m_functionAnalisers = {}
    /\ runs = 0

NoLib ==
    /\ m_libraryInfo = {}
    /\ registered = {}

NoBlock ==
    /\ m_nonDeterministicDeps = "none"
    /\ m_valueDependencies = "none"
    /\ m_elementDependencies = "none"
    /\ m_instructionDependencies = "none"
    /\ m_returnValueDependencies = "none"
    /\ m_is_inputDep = "none"

NoDriver ==
    /\ pc = "none"
    /\ idx = 0
    /\ calls = <<>>

NoOperands == operands = <<>>

----------------------------------------------------------------------------
(* Bounds *)

MaxRuns == 2

NumArgs == 2

NumValues == 1

----------------------------------------------------------------------------
(* The analysed module *)

\* for (auto& F : *m_module): the functions of the module, in iteration order
ModuleFunctions == <<"f1", "g", "f2">>

Functions == {ModuleFunctions[i] : i \in 1..Len(ModuleFunctions)}

\* instr->getParent()->getParent(); block->getParent()
Instructions == {"i_f1", "i_g", "i_f2"}

Blocks == {"b_f1", "b_g", "b_f2"}

getParentBlock(instr) ==
    CASE instr = "i_f1" -> "b_f1"
      [] instr = "i_g"  -> "b_g"
      [] instr = "i_f2" -> "b_f2"

getParent(block) ==
    CASE block = "b_f1" -> "f1"
      [] block = "b_g"  -> "g"
      [] block = "b_f2" -> "f2"

\* only a function with a body has blocks and instructions
BlocksOf(M) == {b \in Blocks : getParent(b) \in M}

InstructionsOf(M) == {i \in Instructions : getParent(getParentBlock(i)) \in M}

\* Utils::isLibraryFunction: a function without a body
isLibraryFunction(F, M) == F \notin M

nullptr == [kind |-> "nullptr", run |-> 0, fn |-> "", dep |-> FALSE]

\* new CachedFunctionAnalysisResult(&F), analyze(): a fresh summary object.
\* dep is what the analysed function's metadata says about its instructions.
CachedFunctionAnalysisResult(F, k, d) ==
    [kind |-> "cached", run |-> k, fn |-> F, dep |-> d]

\* summaries built by a caller and handed to insertAnalysisInfo
ExternalSummaries ==
    {[kind |-> "external", run |-> 0, fn |-> F, dep |-> d] :
        F \in {"f1", "g"}, d \in BOOLEAN}

NoCall == [op |-> "none", fn |-> "", arg |-> "", info |-> nullptr, val |-> FALSE]

----------------------------------------------------------------------------
(* std::unordered_map<Function*, InputDepResType> *)

find(map, F) == {p \in map : p[1] = F}

\* insert(): adds the pair only when the key has no entry; .second tells which
insert(map, F, s) ==
    IF find(map, F) = {}
    THEN [map |-> map \cup {<<F, s>>}, second |-> TRUE]
    ELSE [map |-> map, second |-> FALSE]

----------------------------------------------------------------------------
(* CachedInputDependencyAnalysis *)

\* faulty variant: the entry is written whether or not the key is present
insertAnalysisInfo_noFind(map, F, s) ==
    [map |-> map \cup {<<F, s>>}, result |-> TRUE]

insertAnalysisInfo(map, F, s) ==
    IF find(map, F) # {}
    THEN [map |-> map, result |-> FALSE]
    ELSE [map |-> insert(map, F, s).map, result |-> TRUE]

\* faulty variant: the library-function test is dropped
runSkips_never(F, M) == FALSE

\* run(): `if (Utils::isLibraryFunction(&F, m_module)) continue;`
runSkips(F, M) == isLibraryFunction(F, M)

\* The loop of run() from the i-th function of the module on. deps is what
\* analyze() finds for each function; the assert ends the process at the
\* first insertion that does not take place.
RECURSIVE runLoop(_, _, _, _, _)
runLoop(i, map, M, k, deps) ==
    IF i > Len(ModuleFunctions)
    THEN [map |-> map, asserted |-> TRUE]
    ELSE LET F == ModuleFunctions[i]
         IN  IF runSkips(F, M)
             THEN runLoop(i + 1, map, M, k, deps)
             ELSE LET cached_function == CachedFunctionAnalysisResult(F, k, deps[F])
                      res == insert(map, F, cached_function)
                  IN  IF res.second
                      THEN runLoop(i + 1, res.map, M, k, deps)
                      ELSE [map |-> res.map, asserted |-> FALSE]

run(map, M, k, deps) == runLoop(1, map, M, k, deps)

\* faulty variant: a missing entry answers "input dependent"
isInputDependent_missingTrue(map, F, instr) ==
    LET pos == find(map, F)
    IN  IF pos = {} THEN TRUE ELSE (CHOOSE p \in pos : TRUE)[2].dep

\* isInputDependent(F, instr); pos->second->isInputDependent(instr) is the
\* summary's own answer
isInputDependent(map, F, instr) ==
    LET pos == find(map, F)
    IN  IF pos = {} THEN FALSE ELSE (CHOOSE p \in pos : TRUE)[2].dep

\* isInputDependent(instr)
isInputDependentInstr(map, instr) ==
    LET F == getParent(getParentBlock(instr))
    IN  isInputDependent(map, F, instr)

\* isInputDependent(block)
isInputDependentBlock(map, block) ==
    LET F == getParent(block)
        pos == find(map, F)
    IN  IF pos = {} THEN FALSE ELSE (CHOOSE p \in pos : TRUE)[2].dep

\* getAnalysisInfo(F), both overloads
getAnalysisInfo(map, F) ==
    LET pos == find(map, F)
    IN  IF pos = {} THEN nullptr ELSE (CHOOSE p \in pos : TRUE)[2]

----------------------------------------------------------------------------
(* The cache as a state machine *)

Init ==
    /\ m_module \in SUBSET Functions
    /\ m_functionAnalisers = {}
    /\ runs = 0
    /\ aborted = FALSE
    /\ ret = NoCall
    /\ NoLib
    /\ NoBlock
    /\ NoOperands
    /\ NoDriver

CallRun ==
    /\ ~aborted
    /\ runs < MaxRuns
    /\ \E deps \in [Functions -> BOOLEAN] :
          LET r == run(m_functionAnalisers, m_module, runs + 1, deps)
          IN  /\ m_functionAnalisers' = r.map
              /\ aborted' = ~r.asserted
              /\ ret' = [NoCall EXCEPT !.op = "run", !.val = r.asserted]
    /\ runs' = runs + 1
    /\ UNCHANGED <<m_module, libVars, blockVars, operands, driverVars>>

CallInsertAnalysisInfo ==
    /\ ~aborted
    /\ \E F \in Functions, s \in ExternalSummaries :
          LET r == insertAnalysisInfo(m_functionAnalisers, F, s)
          IN  /\ m_functionAnalisers' = r.map
              /\ ret' = [NoCall EXCEPT !.op = "insertAnalysisInfo", !.fn = F,
                                       !.info = s, !.val = r.result]
    /\ UNCHANGED <<m_module, runs, aborted, libVars, blockVars, operands, driverVars>>

CallIsInputDependent ==
    /\ ~aborted
    /\ \E F \in Functions, instr \in InstructionsOf(m_module) :
          ret' = [NoCall EXCEPT !.op = "isInputDependent(F,instr)", !.fn = F,
                                !.arg = instr,
                                !.val = isInputDependent(m_functionAnalisers, F, instr)]
    /\ UNCHANGED <<cacheVars, aborted, libVars, blockVars, operands, driverVars>>

CallIsInputDependentInstr ==
    /\ ~aborted
    /\ \E instr \in InstructionsOf(m_module) :
          ret' = [NoCall EXCEPT !.op = "isInputDependent(instr)",
                                !.fn = getParent(getParentBlock(instr)),
                                !.arg = instr,
                                !.val = isInputDependentInstr(m_functionAnalisers, instr)]
    /\ UNCHANGED <<cacheVars, aborted, libVars, blockVars, operands, driverVars>>

CallIsInputDependentBlock ==
    /\ ~aborted
    /\ \E block \in BlocksOf(m_module) :
          ret' = [NoCall EXCEPT !.op = "isInputDependent(block)",
                                !.fn = getParent(block), !.arg = block,
                                !.val = isInputDependentBlock(m_functionAnalisers, block)]
    /\ UNCHANGED <<cacheVars, aborted, libVars, blockVars, operands, driverVars>>

CallGetAnalysisInfo ==
    /\ ~aborted
    /\ \E F \in Functions :
          ret' = [NoCall EXCEPT !.op = "getAnalysisInfo", !.fn = F,
                                !.info = getAnalysisInfo(m_functionAnalisers, F)]
    /\ UNCHANGED <<cacheVars, aborted, libVars, blockVars, operands, driverVars>>

Next ==
    \/ CallRun
    \/ CallInsertAnalysisInfo
    \/ CallIsInputDependent
    \/ CallIsInputDependentInstr
    \/ CallIsInputDependentBlock
    \/ CallGetAnalysisInfo

Spec == Init /\ [][Next]_vars

----------------------------------------------------------------------------
(* Properties of the cache *)

Registered(map) == {p[1] : p \in map}

QueryOps == {"isInputDependent(F,instr)", "isInputDependent(instr)",
             "isInputDependent(block)", "getAnalysisInfo"}

\* C1: insertAnalysisInfo(F, s) on a function that already has an entry
\* returns false and leaves the whole cache as it was.
C1_InsertOnPresentFails ==
    [][(ret'.op = "insertAnalysisInfo" /\ find(m_functionAnalisers, ret'.fn) # {})
          => (ret'.val = FALSE /\ m_functionAnalisers' = m_functionAnalisers)]_vars

\* an insertAnalysisInfo refused for a function whose stored summary is
\* another object than the one offered
C1_Witness ==
    /\ ret.op = "insertAnalysisInfo"
    /\ ret.val = FALSE
    /\ find(m_functionAnalisers, ret.fn) # {}
    /\ getAnalysisInfo(m_functionAnalisers, ret.fn) # ret.info

\* C2: under any sequence of run() and insertAnalysisInfo calls every
\* function has at most one summary and the assert on the insertion made by
\* run() holds.
C2_RunInsertAlwaysSucceeds ==
    /\ \A F \in Functions : Cardinality(find(m_functionAnalisers, F)) <= 1
    /\ ret.op = "run" => ret.val = TRUE
    /\ ~aborted

\* C3: run() on an empty cache registers exactly the functions with a body,
\* each under its own identity with the summary analysed for it.
C3_RunRegistersBodies ==
    [][(ret'.op = "run" /\ m_functionAnalisers = {})
          => /\ Registered(m_functionAnalisers') = m_module
             /\ \A p \in m_functionAnalisers' :
                   p[2].kind = "cached" /\ p[2].fn = p[1]
             /\ ~aborted']_vars

\* a first run() over a module with a function that has a body and one
\* that has none
C3_Witness ==
    /\ ret.op = "run"
    /\ runs = 1
    /\ \A p \in m_functionAnalisers : p[2].kind = "cached"
    /\ Registered(m_functionAnalisers) = m_module
    /\ m_module # {}
    /\ m_module # Functions

\* C4: a query about a function with no entry answers false (a null
\* summary for getAnalysisInfo), and no query changes the cache.
C4_MissingSoftFails ==
    [][ret'.op \in QueryOps
          => /\ m_functionAnalisers' = m_functionAnalisers
             /\ find(m_functionAnalisers, ret'.fn) = {}
                   => (ret'.val = FALSE /\ ret'.info = nullptr)]_vars

\* an instruction query answered for a function with a body and no entry
C4_Witness ==
    /\ ret.op = "isInputDependent(instr)"
    /\ ret.fn \in m_module
    /\ find(m_functionAnalisers, ret.fn) = {}
    /\ ret.val = FALSE

----------------------------------------------------------------------------
(* run() step by step: the driver of the cache *)

\* faulty variant: the loop stays on the function it is at
nextFunction_stay(i) == i

\* for (auto& F : *m_module): the loop moves to the next function
nextFunction(i) == i + 1

\* The body of the loop for the function F. d is what analyze() finds; log
\* is the list of the calls made on function analysers so far.
runIteration(F, map, M, k, d, log) ==
    IF runSkips(F, M)
    THEN [map |-> map, asserted |-> TRUE, calls |-> log]
    ELSE LET cached_function == CachedFunctionAnalysisResult(F, k, d)
             res == insert(map, F, cached_function)
         IN  [map |-> res.map, asserted |-> res.second,
              calls |-> Append(log, <<F, "analyze">>)]

\* the state the constructor leaves: the module and an empty cache
DriverInit ==
    /\ m_module \in SUBSET Functions
    /\ m_functionAnalisers = {}
    /\ runs = 0
    /\ pc = "constructed"
    /\ idx = 0
    /\ calls = <<>>
    /\ aborted = FALSE
    /\ ret = NoCall
    /\ NoLib
    /\ NoBlock
    /\ NoOperands

\* run() is entered
RunBegin ==
    /\ pc = "constructed"
    /\ pc' = "run"
    /\ idx' = 1
    /\ runs' = runs + 1
    /\ ret' = [NoCall EXCEPT !.op = "run"]
    /\ UNCHANGED <<m_module, m_functionAnalisers, calls, aborted, libVars, blockVars,
                   operands>>

\* one turn of the loop
RunIteration ==
    /\ pc = "run"
    /\ idx <= Len(ModuleFunctions)
    /\ \E d \in BOOLEAN :
          LET r == runIteration(ModuleFunctions[idx], m_functionAnalisers, m_module,
                                runs, d, calls)
          IN  /\ m_functionAnalisers' = r.map
              /\ calls' = r.calls
              /\ aborted' = ~r.asserted
              /\ pc' = IF r.asserted THEN "run" ELSE "aborted"
    /\ idx' = nextFunction(idx)
    /\ UNCHANGED <<m_module, runs, ret, libVars, blockVars, operands>>

\* the loop is over and run() returns
RunReturn ==
    /\ pc = "run"
    /\ idx > Len(ModuleFunctions)
    /\ pc' = "serving"
    /\ ret' = [NoCall EXCEPT !.op = "run", !.val = TRUE]
    /\ UNCHANGED <<cacheVars, idx, calls, aborted, libVars, blockVars, operands>>

\* the queries made of the cache after run(): they leave the driver where
\* it is
ServeQuery ==
    /\ pc = "serving"
    /\ \/ CallIsInputDependent
       \/ CallIsInputDependentInstr
       \/ CallIsInputDependentBlock
       \/ CallGetAnalysisInfo

DriverNext ==
    \/ RunBegin
    \/ RunIteration
    \/ RunReturn
    \/ ServeQuery

\* run() is synchronous: once the driver exists it is called and runs on to
\* its return
DriverSpec ==
    DriverInit /\ [][DriverNext]_vars /\ WF_vars(RunBegin \/ RunIteration \/ RunReturn)

----------------------------------------------------------------------------
(* Properties of the driver *)

CallsOn(F) == {i \in 1..Len(calls) : calls[i][1] = F}

----------------------------------------------------------------------------
(* LibFunctionInfo and the tables setup() reads *)

NoModel == [name |-> "", origin |-> "none", resolved |-> FALSE, F |-> ""]

LibFunctionInfo(name, origin) ==
    [name |-> name, origin |-> origin, resolved |-> FALSE, F |-> ""]

getName(info) == info.name

isResolved(info) == info.resolved

\* LibFunctionInfo::resolve(F): the model is bound to F and marked resolved
resolve(info, F) == [info EXCEPT !.resolved = TRUE, !.F = F]

\* the names CLibraryInfo::setup and STLStringInfo::setup hand to the collector
CLibraryInfo == <<"malloc", "memcpy">>

STLStringInfo == <<"strlen">>

\* what a configuration file may hold; <<>> also stands for no file at all
ConfigFiles == {<<>>, <<"cfg_fn">>, <<"malloc">>, <<"cfg_fn", "malloc">>}

\* names a query may ask for; "unknown_fn" is never registered
LibNames == {"malloc", "memcpy", "strlen", "cfg_fn", "extra_fn", "unknown_fn"}

\* the llvm::Function symbols a model can be resolved against
LibSymbols == {"F1", "F2"}

\* models handed to addLibFunctionInfo after construction
UserModels == {LibFunctionInfo(n, "user") : n \in {"malloc", "extra_fn"}}

NoLibCall == [op |-> "none", fn |-> "", arg |-> "", info |-> NoModel, val |-> FALSE]

----------------------------------------------------------------------------
(* LibraryInfoManager *)

findModel(table, funcName) == {p \in table : p[1] = funcName}

\* std::unordered_map::emplace: no effect when the key is present
emplace(table, funcName, info) ==
    IF findModel(table, funcName) = {}
    THEN table \cup {<<funcName, info>>}
    ELSE table

\* faulty variant: operator[] assignment instead of emplace: the last
\* registration wins
addLibFunctionInfo_overwrite(table, funcInfo) ==
    (table \ findModel(table, getName(funcInfo)))
        \cup {<<getName(funcInfo), funcInfo>>}

addLibFunctionInfo(table, funcInfo) == emplace(table, getName(funcInfo), funcInfo)

\* one library's setup(): every entry goes through the collector
RECURSIVE collect(_, _, _)
collect(table, names, origin) ==
    IF names = <<>>
    THEN table
    ELSE collect(addLibFunctionInfo(table, LibFunctionInfo(Head(names), origin)),
                 Tail(names), origin)

\* setup(): the C library, the string library, then the configuration file
setup(config) ==
    collect(collect(collect({}, CLibraryInfo, "clib"), STLStringInfo, "stl"),
            config, "config")

hasLibFunctionInfo(table, funcName) == findModel(table, funcName) # {}

\* faulty variant: operator[] instead of find: a default model for a new name
getLibFunctionInfo_default(table, funcName) ==
    LET pos == findModel(table, funcName)
    IN  IF pos = {}
        THEN [asserted |-> TRUE, info |-> LibFunctionInfo(funcName, "default")]
        ELSE [asserted |-> TRUE, info |-> (CHOOSE p \in pos : TRUE)[2]]

\* getLibFunctionInfo: assert(pos != m_libraryInfo.end()); return pos->second
getLibFunctionInfo(table, funcName) ==
    LET pos == findModel(table, funcName)
    IN  IF pos = {}
        THEN [asserted |-> FALSE, info |-> NoModel]
        ELSE [asserted |-> TRUE, info |-> (CHOOSE p \in pos : TRUE)[2]]

\* faulty variant: the isResolved() test is dropped
resolveLibFunctionInfo_always(table, F, demangledName) ==
    LET got == getLibFunctionInfo(table, demangledName)
        libF == got.info
    IN  IF ~got.asserted
        THEN [asserted |-> FALSE, table |-> table]
        ELSE [asserted |-> TRUE,
              table |-> (table \ {<<demangledName, libF>>})
                           \cup {<<demangledName, resolve(libF, F)>>}]

\* resolveLibFunctionInfo: the model is changed in place, through the
\* reference getLibFunctionInfo returned
resolveLibFunctionInfo(table, F, demangledName) ==
    LET got == getLibFunctionInfo(table, demangledName)
        libF == got.info
    IN  IF ~got.asserted
        THEN [asserted |-> FALSE, table |-> table]
        ELSE IF isResolved(libF)
        THEN [asserted |-> TRUE, table |-> table]
        ELSE [asserted |-> TRUE,
              table |-> (table \ {<<demangledName, libF>>})
                           \cup {<<demangledName, resolve(libF, F)>>}]

----------------------------------------------------------------------------
(* The library table as a state machine *)

Range(s) == {s[i] : i \in 1..Len(s)}

\* the state LibraryInfoManager() leaves: setup() has run
LibInit ==
    /\ \E config \in ConfigFiles :
          /\ m_libraryInfo = setup(config)
          /\ registered = Range(CLibraryInfo) \cup Range(STLStringInfo) \cup Range(config)
          /\ ret = [NoLibCall EXCEPT !.op = "setup", !.arg = config]
    /\ aborted = FALSE
    /\ NoCache
    /\ NoBlock
    /\ NoOperands
    /\ NoDriver

CallHasLibFunctionInfo ==
    /\ ~aborted
    /\ \E funcName \in LibNames :
          ret' = [NoLibCall EXCEPT !.op = "hasLibFunctionInfo", !.fn = funcName,
                                   !.val = hasLibFunctionInfo(m_libraryInfo, funcName)]
    /\ UNCHANGED <<cacheVars, libVars, aborted, blockVars, operands, driverVars>>

CallGetLibFunctionInfo ==
    /\ ~aborted
    /\ \E funcName \in LibNames :
          LET got == getLibFunctionInfo(m_libraryInfo, funcName)
          IN  /\ aborted' = ~got.asserted
              /\ ret' = [NoLibCall EXCEPT !.op = "getLibFunctionInfo", !.fn = funcName,
                                       !.info = got.info, !.val = got.asserted]
    /\ UNCHANGED <<cacheVars, libVars, blockVars, operands, driverVars>>

CallResolveLibFunctionInfo ==
    /\ ~aborted
    /\ \E F \in LibSymbols, demangledName \in LibNames :
          LET r == resolveLibFunctionInfo(m_libraryInfo, F, demangledName)
          IN  /\ aborted' = ~r.asserted
              /\ m_libraryInfo' = r.table
              /\ ret' = [NoLibCall EXCEPT !.op = "resolveLibFunctionInfo",
                                       !.fn = demangledName, !.arg = F,
                                       !.val = r.asserted]
    /\ UNCHANGED <<cacheVars, registered, blockVars, operands, driverVars>>

CallAddLibFunctionInfo ==
    /\ ~aborted
    /\ \E funcInfo \in UserModels :
          /\ m_libraryInfo' = addLibFunctionInfo(m_libraryInfo, funcInfo)
          /\ registered' = registered \cup {getName(funcInfo)}
          /\ ret' = [NoLibCall EXCEPT !.op = "addLibFunctionInfo",
                                   !.fn = getName(funcInfo), !.info = funcInfo]
    /\ UNCHANGED <<cacheVars, aborted, blockVars, operands, driverVars>>

LibNext ==
    \/ CallHasLibFunctionInfo
    \/ CallGetLibFunctionInfo
    \/ CallResolveLibFunctionInfo
    \/ CallAddLibFunctionInfo

LibSpec == LibInit /\ [][LibNext]_vars

----------------------------------------------------------------------------
(* Properties of the library table *)

ModelOf(table, funcName) == (CHOOSE p \in findModel(table, funcName) : TRUE)[2]

\* C6: the first resolve of an unresolved model binds it to the symbol and
\* marks it resolved; a resolved model keeps its symbol and its flag under
\* every later call.
C6_ResolveOnce ==
    [][/\ \A p \in m_libraryInfo : isResolved(p[2]) => p \in m_libraryInfo'
       /\ (/\ ret'.op = "resolveLibFunctionInfo"
           /\ hasLibFunctionInfo(m_libraryInfo, ret'.fn)
           /\ ~isResolved(ModelOf(m_libraryInfo, ret'.fn)))
             => /\ hasLibFunctionInfo(m_libraryInfo', ret'.fn)
                /\ ModelOf(m_libraryInfo', ret'.fn) =
                      [ModelOf(m_libraryInfo, ret'.fn) EXCEPT
                          !.resolved = TRUE, !.F = ret'.arg]]_vars

\* a resolve against another symbol than the one the model is bound to
C6_Witness ==
    /\ ret.op = "resolveLibFunctionInfo"
    /\ ~aborted
    /\ hasLibFunctionInfo(m_libraryInfo, ret.fn)
    /\ isResolved(ModelOf(m_libraryInfo, ret.fn))
    /\ ModelOf(m_libraryInfo, ret.fn).F # ret.arg

\* C7: hasLibFunctionInfo answers true exactly for the registered names;
\* getLibFunctionInfo returns the model of a registered name; for a name
\* never registered it, and resolveLibFunctionInfo, end in the failed
\* assert, with no model returned and the table as it was.
C7_LookupOfUnregisteredIsFatal ==
    [][/\ ret'.op = "hasLibFunctionInfo" => (ret'.val <=> ret'.fn \in registered)
       /\ (ret'.op = "getLibFunctionInfo" /\ ret'.fn \in registered)
             => /\ ~aborted'
                /\ getName(ret'.info) = ret'.fn
                /\ <<ret'.fn, ret'.info>> \in m_libraryInfo
       /\ (ret'.op \in {"getLibFunctionInfo", "resolveLibFunctionInfo"}
              /\ ret'.fn \notin registered)
             => /\ aborted'
                /\ ret'.info = NoModel
                /\ m_libraryInfo' = m_libraryInfo]_vars

\* a resolve for a name that was never registered has ended the process
C7_Witness ==
    /\ ret.op = "resolveLibFunctionInfo"
    /\ ret.fn \notin registered
    /\ aborted
    /\ ~hasLibFunctionInfo(m_libraryInfo, ret.fn)

\* C16: registration is first-wins: the table holds at most one model per
\* name, the names of the C library and of the string library keep the
\* model setup() gave them first, whatever the configuration file and later
\* registrations hold, and addLibFunctionInfo for a name already in the
\* table leaves the table as it was and reports nothing.
C16_RegistrationIsFirstWins ==
    /\ [](\A p, q \in m_libraryInfo : p[1] = q[1] => p = q)
    /\ [](\A n \in Range(CLibraryInfo) :
             /\ hasLibFunctionInfo(m_libraryInfo, n)
             /\ ModelOf(m_libraryInfo, n).origin = "clib")
    /\ [](\A n \in Range(STLStringInfo) :
             /\ hasLibFunctionInfo(m_libraryInfo, n)
             /\ ModelOf(m_libraryInfo, n).origin = "stl")
    /\ [][(ret'.op = "addLibFunctionInfo"
             /\ hasLibFunctionInfo(m_libraryInfo, ret'.fn))
           => (m_libraryInfo' = m_libraryInfo /\ aborted' = aborted)]_vars

\* setup() has read a configuration file with an entry for a name of the C
\* library, and the table holds the C library's model for it
C16_Witness ==
    /\ ret.op = "setup"
    /\ \E n \in Range(CLibraryInfo) :
          /\ n \in Range(ret.arg)
          /\ ModelOf(m_libraryInfo, n).origin = "clib"
          /\ Cardinality(findModel(m_libraryInfo, n)) = 1

----------------------------------------------------------------------------
(* DepInfo: the dependency lattice *)

Arguments == 1..NumArgs

GlobalValues == 1..NumValues

DepInfo(dep, args, values) ==
    [dependency |-> dep, argumentDependencies |-> args, valueDependencies |-> values]

InputIndep == DepInfo("INPUT_INDEP", {}, {})

InputDep == DepInfo("INPUT_DEP", {}, {})

\* a ValueDepInfo that was never set: isDefined() is false
Undefined == DepInfo("UNKNOWN", {}, {})

\* every defined DepInfo: a tag, and the sets the tag carries
DepInfoSet ==
    {InputIndep, InputDep}
      \cup {DepInfo("VALUE_DEP", {}, V) : V \in (SUBSET GlobalValues) \ {{}}}
      \cup {DepInfo("INPUT_ARGDEP", A, V) :
               A \in (SUBSET Arguments) \ {{}}, V \in SUBSET GlobalValues}

\* the dependencies a caller hands to a write: one of each case
InfoInputs ==
    {InputIndep, InputDep, DepInfo("VALUE_DEP", {}, {1}), DepInfo("INPUT_ARGDEP", {1}, {})}

isDefined(info) == info.dependency # "UNKNOWN"

isInputIndep(info) == info.dependency = "INPUT_INDEP"

isInputDep(info) == info.dependency = "INPUT_DEP"

isInputArgumentDep(info) == info.dependency = "INPUT_ARGDEP"

\* the order of the enumeration DepInfo::Dependency
Rank(dep) ==
    CASE dep = "UNKNOWN"      -> 0
      [] dep = "INPUT_INDEP"  -> 1
      [] dep = "VALUE_DEP"    -> 2
      [] dep = "INPUT_ARGDEP" -> 3
      [] dep = "INPUT_DEP"    -> 4

\* DepInfo::mergeDependencies: INPUT_DEP absorbs; otherwise the larger tag
\* and the union of the sets
mergeDependencies(info, other) ==
    IF isInputDep(info) \/ isInputDep(other)
    THEN InputDep
    ELSE DepInfo(IF Rank(info.dependency) >= Rank(other.dependency)
                 THEN info.dependency ELSE other.dependency,
                 info.argumentDependencies \cup other.argumentDependencies,
                 info.valueDependencies \cup other.valueDependencies)

\* ValueDepInfo::updateCompositeValueDep(DepInfo): the value takes the
\* given dependency
updateCompositeValueDep(info, dep) == dep

\* ValueDepInfo::mergeDependencies(ValueDepInfo)
mergeValueDependencies(info, other) == mergeDependencies(info, other)

\* the lattice order: other is at least info
Leq(info, other) == mergeDependencies(info, other) = other

WellFormed(info) ==
    \/ info = InputIndep
    \/ info = InputDep
    \/ /\ info.dependency = "VALUE_DEP"
       /\ info.valueDependencies # {}
       /\ info.argumentDependencies = {}
    \/ /\ info.dependency = "INPUT_ARGDEP"
       /\ info.argumentDependencies # {}

----------------------------------------------------------------------------
(* ReflectingBasicBlockAnaliser: the stored dependencies *)

Values == {"v"}

Elements == {<<"v", "e">>}

BlockInstructions == {"i"}

Reflecting_getInstructionDependencies(instrDeps, instr) == instrDeps[instr]

Reflecting_getValueDependencies(valueDeps, value) == valueDeps[value]

Reflecting_getCompositeValueDependencies(elementDeps, value, element_instr) ==
    elementDeps[<<value, element_instr>>]

Reflecting_updateValueDependencies(valueDeps, value, info) ==
    [valueDeps EXCEPT ![value] = info]

Reflecting_updateCompositeValueDependencies(elementDeps, value, elInstr, info) ==
    [elementDeps EXCEPT ![<<value, elInstr>>] = info]

Reflecting_updateInstructionDependencies(instrDeps, instr, info) ==
    [instrDeps EXCEPT ![instr] = info]

Reflecting_updateReturnValueDependencies(retDeps, info) == info

----------------------------------------------------------------------------
(* NonDeterministicReflectingBasicBlockAnaliser *)

\* faulty variant: the ambient context is not merged in
addOnDependencyInfo_noMerge(info, nonDeterministicDeps) == info

\* faulty variant: the early return tests for INPUT_INDEP, as the one of
\* getArgumentValueDependecnies does
addOnDependencyInfo_skipIndep(info, nonDeterministicDeps) ==
    IF isInputIndep(info)
    THEN info
    ELSE mergeDependencies(info, nonDeterministicDeps)

\* addOnDependencyInfo(const DepInfo&)
addOnDependencyInfo(info, nonDeterministicDeps) ==
    IF isInputDep(info)
    THEN info
    ELSE mergeDependencies(info, nonDeterministicDeps)

\* addOnDependencyInfo(const ValueDepInfo&)
addOnValueDependencyInfo(info, nonDeterministicDeps) ==
    LET nonDetDeps_info == updateCompositeValueDep(info, nonDeterministicDeps)
    IN  mergeValueDependencies(info, nonDetDeps_info)

getInstructionDependencies(instrDeps, instr, nonDeterministicDeps) ==
    LET depInfo == Reflecting_getInstructionDependencies(instrDeps, instr)
    IN  IF isInputDep(depInfo)
        THEN depInfo
        ELSE mergeDependencies(depInfo, nonDeterministicDeps)

\* faulty variant: the read returns the stored dependency as it is
getValueDependencies_stored(valueDeps, value, nonDeterministicDeps) ==
    Reflecting_getValueDependencies(valueDeps, value)

getValueDependencies(valueDeps, value, nonDeterministicDeps) ==
    LET depInfo == Reflecting_getValueDependencies(valueDeps, value)
    IN  IF ~isDefined(depInfo)
        THEN depInfo
        ELSE IF isInputDep(depInfo)
        THEN depInfo
        ELSE mergeDependencies(depInfo, nonDeterministicDeps)

getCompositeValueDependencies(elementDeps, value, element_instr, nonDeterministicDeps) ==
    LET depInfo == Reflecting_getCompositeValueDependencies(elementDeps, value, element_instr)
    IN  IF ~isDefined(depInfo)
        THEN depInfo
        ELSE IF isInputDep(depInfo)
        THEN depInfo
        ELSE mergeDependencies(depInfo, nonDeterministicDeps)

\* updateValueDependencies, both overloads: the info goes to the base class
\* as it came
updateValueDependencies(valueDeps, value, info, nonDeterministicDeps) ==
    Reflecting_updateValueDependencies(valueDeps, value, info)

updateCompositeValueDependencies(elementDeps, value, elInstr, info, nonDeterministicDeps) ==
    Reflecting_updateCompositeValueDependencies(
        elementDeps, value, elInstr,
        addOnValueDependencyInfo(info, nonDeterministicDeps))

updateInstructionDependencies(instrDeps, instr, info, nonDeterministicDeps) ==
    Reflecting_updateInstructionDependencies(
        instrDeps, instr, addOnDependencyInfo(info, nonDeterministicDeps))

updateReturnValueDependencies(retDeps, info, nonDeterministicDeps) ==
    Reflecting_updateReturnValueDependencies(
        retDeps, addOnValueDependencyInfo(info, nonDeterministicDeps))

\* ReflectingBasicBlockAnaliser::getArgumentValueDependecnies: what the
\* analyser holds for the value passed as an actual argument
Reflecting_getArgumentValueDependecnies(valueDeps, argVal) == valueDeps[argVal]

getArgumentValueDependecnies(valueDeps, argVal, nonDeterministicDeps) ==
    LET depInfo == Reflecting_getArgumentValueDependecnies(valueDeps, argVal)
    IN  IF isInputIndep(depInfo)
        THEN depInfo
        ELSE addOnValueDependencyInfo(depInfo, nonDeterministicDeps)

\* DepInfo::isValueDep
isValueDep(info) == info.dependency = "VALUE_DEP"

\* Utils::haveIntersection: one of the arguments is among the confirmed
\* input dependent ones
haveIntersection(dependentArgs, argumentDependencies) ==
    dependentArgs \cap argumentDependencies # {}

\* the promotion of one stored dependency by the confirmed arguments
finalizeArgumentDependencies(dependentArgs, info) ==
    IF isInputArgumentDep(info)
          /\ haveIntersection(dependentArgs, info.argumentDependencies)
    THEN InputDep
    ELSE info

\* finalizeValueDependencies: a dependency on a confirmed input dependent
\* global becomes INPUT_DEP
finalizeValueDependencies(globalsDeps, info) ==
    IF globalsDeps \cap info.valueDependencies # {}
    THEN InputDep
    ELSE info

\* ReflectingBasicBlockAnaliser::finalizeResults and
\* BasicBlockAnalysisResult::finalizeGlobals: the promotion rule on every
\* stored dependency; b is the record of what the block stores
Reflecting_finalizeResults(b, dependentArgs) ==
    [valueDependencies |->
         [v \in Values |-> finalizeArgumentDependencies(dependentArgs, b.valueDependencies[v])],
     elementDependencies |->
         [e \in Elements |-> finalizeArgumentDependencies(dependentArgs, b.elementDependencies[e])],
     instructionDependencies |->
         [i \in BlockInstructions |->
             finalizeArgumentDependencies(dependentArgs, b.instructionDependencies[i])],
     returnValueDependencies |->
         finalizeArgumentDependencies(dependentArgs, b.returnValueDependencies),
     is_inputDep |-> b.is_inputDep]

BasicBlockAnalysisResult_finalizeGlobals(b, globalsDeps) ==
    [valueDependencies |->
         [v \in Values |-> finalizeValueDependencies(globalsDeps, b.valueDependencies[v])],
     elementDependencies |->
         [e \in Elements |-> finalizeValueDependencies(globalsDeps, b.elementDependencies[e])],
     instructionDependencies |->
         [i \in BlockInstructions |->
             finalizeValueDependencies(globalsDeps, b.instructionDependencies[i])],
     returnValueDependencies |->
         finalizeValueDependencies(globalsDeps, b.returnValueDependencies),
     is_inputDep |-> b.is_inputDep]

\* faulty variant: an argument dependent context marks the block whatever
\* the confirmed arguments are
finalizeResults_anyArgDep(b, nonDeterministicDeps, dependentArgs) ==
    LET base == Reflecting_finalizeResults(b, dependentArgs)
    IN  [base EXCEPT !.is_inputDep =
            \/ base.is_inputDep
            \/ isInputDep(nonDeterministicDeps)
            \/ isInputArgumentDep(nonDeterministicDeps)]

\* finalizeResults: the stored dependencies and the mark after the call; the
\* ambient context is not assigned
finalizeResults(b, nonDeterministicDeps, dependentArgs) ==
    LET base == Reflecting_finalizeResults(b, dependentArgs)
    IN  [base EXCEPT !.is_inputDep =
            \/ base.is_inputDep
            \/ isInputDep(nonDeterministicDeps)
            \/ /\ isInputArgumentDep(nonDeterministicDeps)
               /\ haveIntersection(dependentArgs,
                                   nonDeterministicDeps.argumentDependencies)]

\* faulty variant: only a context tagged VALUE_DEP is finalized
finalizeGlobals_tagOnly(b, nonDeterministicDeps, globalsDeps) ==
    LET base == BasicBlockAnalysisResult_finalizeGlobals(b, globalsDeps)
    IN  IF ~isValueDep(nonDeterministicDeps)
        THEN [stored |-> base, nonDeterministicDeps |-> nonDeterministicDeps]
        ELSE LET deps == finalizeValueDependencies(globalsDeps, nonDeterministicDeps)
             IN  [stored |-> [base EXCEPT !.is_inputDep = base.is_inputDep \/ isInputDep(deps)],
                  nonDeterministicDeps |-> deps]

\* faulty variant: the mark is assigned, not or-ed
finalizeGlobals_assign(b, nonDeterministicDeps, globalsDeps) ==
    LET base == BasicBlockAnalysisResult_finalizeGlobals(b, globalsDeps)
    IN  IF ~isValueDep(nonDeterministicDeps)
           /\ nonDeterministicDeps.valueDependencies = {}
        THEN [stored |-> base, nonDeterministicDeps |-> nonDeterministicDeps]
        ELSE LET deps == finalizeValueDependencies(globalsDeps, nonDeterministicDeps)
             IN  [stored |-> [base EXCEPT !.is_inputDep = isInputDep(deps)],
                  nonDeterministicDeps |-> deps]

\* finalizeGlobals: the stored dependencies, the mark and the ambient context
\* after the call
finalizeGlobals(b, nonDeterministicDeps, globalsDeps) ==
    LET base == BasicBlockAnalysisResult_finalizeGlobals(b, globalsDeps)
    IN  IF ~isValueDep(nonDeterministicDeps)
           /\ nonDeterministicDeps.valueDependencies = {}
        THEN [stored |-> base, nonDeterministicDeps |-> nonDeterministicDeps]
        ELSE LET deps == finalizeValueDependencies(globalsDeps, nonDeterministicDeps)
             IN  [stored |-> [base EXCEPT !.is_inputDep = base.is_inputDep \/ isInputDep(deps)],
                  nonDeterministicDeps |-> deps]

----------------------------------------------------------------------------
(* The block analyser as a state machine *)

NoBlockCall == [op |-> "none", fn |-> "", arg |-> "", info |-> Undefined, val |-> Undefined]

\* the state the constructor leaves: the ambient context it was given and
\* nothing stored
BlockInit ==
    /\ m_nonDeterministicDeps \in DepInfoSet
    /\ m_valueDependencies = [v \in Values |-> Undefined]
    /\ m_elementDependencies = [e \in Elements |-> Undefined]
    /\ m_instructionDependencies = [i \in BlockInstructions |-> Undefined]
    /\ m_returnValueDependencies = Undefined
    /\ m_is_inputDep = FALSE
    /\ NoOperands
    /\ aborted = FALSE
    /\ ret = NoBlockCall
    /\ NoCache
    /\ NoLib
    /\ NoDriver

CallUpdateValueDependencies ==
    /\ \E value \in Values, info \in InfoInputs :
          /\ m_valueDependencies' =
                updateValueDependencies(m_valueDependencies, value, info,
                                        m_nonDeterministicDeps)
          /\ ret' = [NoBlockCall EXCEPT !.op = "updateValueDependencies",
                                     !.arg = value, !.info = info]
    /\ UNCHANGED <<m_nonDeterministicDeps, m_is_inputDep, m_elementDependencies,
                   m_instructionDependencies, m_returnValueDependencies,
                   cacheVars, libVars, operands, driverVars, aborted>>

CallUpdateCompositeValueDependencies ==
    /\ \E el \in Elements, info \in InfoInputs :
          /\ m_elementDependencies' =
                updateCompositeValueDependencies(m_elementDependencies, el[1], el[2],
                                                 info, m_nonDeterministicDeps)
          /\ ret' = [NoBlockCall EXCEPT !.op = "updateCompositeValueDependencies",
                                     !.arg = el, !.info = info]
    /\ UNCHANGED <<m_nonDeterministicDeps, m_is_inputDep, m_valueDependencies,
                   m_instructionDependencies, m_returnValueDependencies,
                   cacheVars, libVars, operands, driverVars, aborted>>

CallUpdateInstructionDependencies ==
    /\ \E instr \in BlockInstructions, info \in InfoInputs :
          /\ m_instructionDependencies' =
                updateInstructionDependencies(m_instructionDependencies, instr, info,
                                              m_nonDeterministicDeps)
          /\ ret' = [NoBlockCall EXCEPT !.op = "updateInstructionDependencies",
                                     !.arg = instr, !.info = info]
    /\ UNCHANGED <<m_nonDeterministicDeps, m_is_inputDep, m_valueDependencies, m_elementDependencies,
                   m_returnValueDependencies, cacheVars, libVars, operands, driverVars, aborted>>

CallUpdateReturnValueDependencies ==
    /\ \E info \in InfoInputs :
          /\ m_returnValueDependencies' =
                updateReturnValueDependencies(m_returnValueDependencies, info,
                                              m_nonDeterministicDeps)
          /\ ret' = [NoBlockCall EXCEPT !.op = "updateReturnValueDependencies",
                                     !.info = info]
    /\ UNCHANGED <<m_nonDeterministicDeps, m_is_inputDep, m_valueDependencies, m_elementDependencies,
                   m_instructionDependencies, cacheVars, libVars, operands, driverVars, aborted>>

\* the reads: ret.info is what the reflecting analyser holds, ret.val what
\* the call returns
CallGetInstructionDependencies ==
    /\ \E instr \in BlockInstructions :
          /\ isDefined(m_instructionDependencies[instr])
          /\ ret' = [NoBlockCall EXCEPT
                        !.op = "getInstructionDependencies", !.arg = instr,
                        !.info = Reflecting_getInstructionDependencies(
                                     m_instructionDependencies, instr),
                        !.val = getInstructionDependencies(
                                    m_instructionDependencies, instr,
                                    m_nonDeterministicDeps)]
    /\ UNCHANGED <<blockVars, cacheVars, libVars, operands, driverVars, aborted>>

CallGetValueDependencies ==
    /\ \E value \in Values :
          ret' = [NoBlockCall EXCEPT
                     !.op = "getValueDependencies", !.arg = value,
                     !.info = Reflecting_getValueDependencies(m_valueDependencies, value),
                     !.val = getValueDependencies(m_valueDependencies, value,
                                                  m_nonDeterministicDeps)]
    /\ UNCHANGED <<blockVars, cacheVars, libVars, operands, driverVars, aborted>>

CallGetCompositeValueDependencies ==
    /\ \E el \in Elements :
          ret' = [NoBlockCall EXCEPT
                     !.op = "getCompositeValueDependencies", !.arg = el,
                     !.info = Reflecting_getCompositeValueDependencies(
                                  m_elementDependencies, el[1], el[2]),
                     !.val = getCompositeValueDependencies(
                                 m_elementDependencies, el[1], el[2],
                                 m_nonDeterministicDeps)]
    /\ UNCHANGED <<blockVars, cacheVars, libVars, operands, driverVars, aborted>>

\* the lookup of an actual argument at a call site: ret.info is what the
\* reflecting analyser holds for the value
CallGetArgumentValueDependecnies ==
    /\ \E argVal \in Values :
          /\ isDefined(m_valueDependencies[argVal])
          /\ ret' = [NoBlockCall EXCEPT
                        !.op = "getArgumentValueDependecnies", !.arg = argVal,
                        !.info = Reflecting_getArgumentValueDependecnies(
                                     m_valueDependencies, argVal),
                        !.val = getArgumentValueDependecnies(
                                    m_valueDependencies, argVal,
                                    m_nonDeterministicDeps)]
    /\ UNCHANGED <<blockVars, cacheVars, libVars, operands, driverVars, aborted>>

\* what the block stores, as the finalize operators take it
Stored ==
    [valueDependencies |-> m_valueDependencies,
     elementDependencies |-> m_elementDependencies,
     instructionDependencies |-> m_instructionDependencies,
     returnValueDependencies |-> m_returnValueDependencies,
     is_inputDep |-> m_is_inputDep]

StoredBecomes(b) ==
    /\ m_valueDependencies' = b.valueDependencies
    /\ m_elementDependencies' = b.elementDependencies
    /\ m_instructionDependencies' = b.instructionDependencies
    /\ m_returnValueDependencies' = b.returnValueDependencies
    /\ m_is_inputDep' = b.is_inputDep

\* the finalize calls: ret.arg is the confirmed set, ret.info the ambient
\* context before the call, ret.val the ambient context after it
CallFinalizeResults ==
    /\ \E dependentArgs \in SUBSET Arguments :
          /\ StoredBecomes(finalizeResults(Stored, m_nonDeterministicDeps, dependentArgs))
          /\ ret' = [NoBlockCall EXCEPT
                        !.op = "finalizeResults", !.arg = dependentArgs,
                        !.info = m_nonDeterministicDeps,
                        !.val = m_nonDeterministicDeps]
    /\ UNCHANGED <<m_nonDeterministicDeps, cacheVars, libVars, operands, driverVars,
                   aborted>>

CallFinalizeGlobals ==
    /\ \E globalsDeps \in SUBSET GlobalValues :
          LET r == finalizeGlobals(Stored, m_nonDeterministicDeps, globalsDeps)
          IN  /\ StoredBecomes(r.stored)
              /\ m_nonDeterministicDeps' = r.nonDeterministicDeps
              /\ ret' = [NoBlockCall EXCEPT
                            !.op = "finalizeGlobals", !.arg = globalsDeps,
                            !.info = m_nonDeterministicDeps,
                            !.val = r.nonDeterministicDeps]
    /\ UNCHANGED <<cacheVars, libVars, operands, driverVars, aborted>>

BlockNext ==
    \/ CallUpdateValueDependencies
    \/ CallUpdateCompositeValueDependencies
    \/ CallUpdateInstructionDependencies
    \/ CallUpdateReturnValueDependencies
    \/ CallGetInstructionDependencies
    \/ CallGetValueDependencies
    \/ CallGetCompositeValueDependencies
    \/ CallGetArgumentValueDependecnies
    \/ CallFinalizeResults
    \/ CallFinalizeGlobals

BlockSpec == BlockInit /\ [][BlockNext]_vars

----------------------------------------------------------------------------
(* Properties of the block analyser *)

ReadOps == {"getInstructionDependencies", "getValueDependencies",
            "getCompositeValueDependencies"}

\* C8: a read of a stored dependency d under the ambient context c returns
\* merge(d, c), also when d is INPUT_DEP and the merge is skipped.
C8_ReadMergesContext ==
    (ret.op \in ReadOps /\ isDefined(ret.info))
        => ret.val = mergeDependencies(ret.info, m_nonDeterministicDeps)

\* a read of a stored INPUT_DEP under a context that is neither extreme
C8_Witness ==
    /\ ret.op = "getValueDependencies"
    /\ isInputDep(ret.info)
    /\ ~isInputDep(m_nonDeterministicDeps)
    /\ ~isInputIndep(m_nonDeterministicDeps)
    /\ ret.val = InputDep

StoredIsMerged(stored, info, nonDeterministicDeps) ==
    /\ stored = mergeDependencies(info, nonDeterministicDeps)
    /\ Leq(nonDeterministicDeps, stored)
    /\ isInputDep(nonDeterministicDeps) => isInputDep(stored)

\* C9: what updateInstructionDependencies, updateReturnValueDependencies and
\* updateCompositeValueDependencies store is merge(info, c): at least c, and
\* INPUT_DEP whenever c is INPUT_DEP.
C9_WritesFoldContext ==
    [][/\ ret'.op = "updateInstructionDependencies"
             => StoredIsMerged(m_instructionDependencies'[ret'.arg], ret'.info,
                               m_nonDeterministicDeps)
       /\ ret'.op = "updateReturnValueDependencies"
             => StoredIsMerged(m_returnValueDependencies', ret'.info,
                               m_nonDeterministicDeps)
       /\ ret'.op = "updateCompositeValueDependencies"
             => StoredIsMerged(m_elementDependencies'[ret'.arg], ret'.info,
                               m_nonDeterministicDeps)]_vars

\* an instruction given INPUT_INDEP in a block whose context is INPUT_DEP
C9_Witness ==
    /\ ret.op = "updateInstructionDependencies"
    /\ isInputIndep(ret.info)
    /\ isInputDep(m_nonDeterministicDeps)
    /\ isInputDep(m_instructionDependencies[ret.arg])

\* C10: the entry updateValueDependencies stores for a value is
\* merge(info, c).
C10_ValueWriteFoldsContext ==
    [][ret'.op = "updateValueDependencies"
          => m_valueDependencies'[ret'.arg] =
                mergeDependencies(ret'.info, m_nonDeterministicDeps)]_vars

\* C11: the lookup of an actual argument whose dependency is d, INPUT_INDEP
\* included, under the ambient context c returns merge(d, c).
C11_ArgumentLookupMergesContext ==
    ret.op = "getArgumentValueDependecnies"
        => ret.val = mergeDependencies(ret.info, m_nonDeterministicDeps)

\* C13: finalizeResults marks the block when the ambient context is
\* INPUT_DEP, or is INPUT_ARGDEP(S) with S meeting the confirmed arguments;
\* with S disjoint from them the context leaves the mark as it was.
C13_FinalizeResultsMarks ==
    [][ret'.op = "finalizeResults" =>
          LET c == m_nonDeterministicDeps
              hit == /\ isInputArgumentDep(c)
                     /\ c.argumentDependencies \cap ret'.arg # {}
          IN  /\ (isInputDep(c) \/ hit) => m_is_inputDep'
              /\ (isInputArgumentDep(c) /\ ~hit) => m_is_inputDep' = m_is_inputDep
              /\ m_nonDeterministicDeps' = c]_vars

\* an argument dependent context met the confirmed arguments and the block
\* is marked
C13_Witness ==
    /\ ret.op = "finalizeResults"
    /\ isInputArgumentDep(ret.info)
    /\ ret.info.argumentDependencies \cap ret.arg # {}
    /\ ret.info.argumentDependencies \ ret.arg # {}
    /\ m_is_inputDep

\* C14: finalizeGlobals on an ambient context whose value set meets the
\* confirmed globals leaves the context INPUT_DEP and the block marked,
\* whatever the tag of the context.
C14_FinalizeGlobalsPromotes ==
    [][(ret'.op = "finalizeGlobals"
          /\ m_nonDeterministicDeps.valueDependencies \cap ret'.arg # {})
        => (m_nonDeterministicDeps' = InputDep /\ m_is_inputDep')]_vars

\* a context tagged INPUT_ARGDEP that carries a value set was promoted
C14_Witness ==
    /\ ret.op = "finalizeGlobals"
    /\ isInputArgumentDep(ret.info)
    /\ ret.info.valueDependencies \cap ret.arg # {}
    /\ m_nonDeterministicDeps = InputDep
    /\ m_is_inputDep

\* C15: a finalizeResults or finalizeGlobals call lowers neither the ambient
\* context nor what getInstructionDependencies returns for an instruction,
\* and never takes the mark of the block away.
C15_FinalizationIsMonotone ==
    [][ret'.op \in {"finalizeResults", "finalizeGlobals"} =>
          /\ Leq(m_nonDeterministicDeps, m_nonDeterministicDeps')
          /\ \A instr \in BlockInstructions :
                Leq(getInstructionDependencies(m_instructionDependencies, instr,
                                               m_nonDeterministicDeps),
                    getInstructionDependencies(m_instructionDependencies', instr,
                                               m_nonDeterministicDeps'))
          /\ m_is_inputDep => m_is_inputDep']_vars

\* a marked block went through a finalizeGlobals call that found nothing to
\* promote in the context, with an instruction dependency stored
C15_Witness ==
    /\ ret.op = "finalizeGlobals"
    /\ ~isInputDep(ret.val)
    /\ ret.info.valueDependencies # {}
    /\ m_is_inputDep
    /\ \E instr \in BlockInstructions : isDefined(m_instructionDependencies[instr])

----------------------------------------------------------------------------
(* The merge laws *)

\* the join made by DepInfo::mergeDependencies itself or, through
\* addOnDependencyInfo, with the second operand as the ambient context
Join(op, x, y) ==
    IF op = "addOnDependencyInfo"
    THEN addOnDependencyInfo(x, y)
    ELSE mergeDependencies(x, y)

\* the merges of three operands that the laws compare
Merges(op, x, y, z) ==
    [xy |-> Join(op, x, y), yx |-> Join(op, y, x),
     xy_z |-> Join(op, Join(op, x, y), z), x_yz |-> Join(op, x, Join(op, y, z)),
     xx |-> Join(op, x, x),
     xTop |-> Join(op, x, InputDep), xBot |-> Join(op, x, InputIndep)]

NoMerges ==
    [xy |-> Undefined, yx |-> Undefined, xy_z |-> Undefined, x_yz |-> Undefined,
     xx |-> Undefined, xTop |-> Undefined, xBot |-> Undefined]

NoMergeCall == [op |-> "none", fn |-> "", arg |-> "", info |-> Undefined, val |-> NoMerges]

MergeInit ==
    /\ operands \in DepInfoSet \X DepInfoSet \X DepInfoSet
    /\ aborted = FALSE
    /\ ret = NoMergeCall
    /\ NoCache
    /\ NoLib
    /\ NoBlock
    /\ NoDriver

\* info.mergeDependencies(other) on the operands
CallMergeDependencies ==
    /\ ret' = [NoMergeCall EXCEPT
                  !.op = "mergeDependencies",
                  !.val = Merges("mergeDependencies",
                                 operands[1], operands[2], operands[3])]
    /\ UNCHANGED <<cacheVars, libVars, blockVars, operands, driverVars, aborted>>

\* the merge as the block analyser makes it: addOnDependencyInfo(info) with
\* the other operand as the ambient context
CallAddOnDependencyInfo ==
    /\ ret' = [NoMergeCall EXCEPT
                  !.op = "addOnDependencyInfo",
                  !.val = Merges("addOnDependencyInfo",
                                 operands[1], operands[2], operands[3])]
    /\ UNCHANGED <<cacheVars, libVars, blockVars, operands, driverVars, aborted>>

MergeNext ==
    \/ CallMergeDependencies
    \/ CallAddOnDependencyInfo

MergeSpec == MergeInit /\ [][MergeNext]_vars

\* C5: the merge is commutative, associative and idempotent, INPUT_DEP
\* absorbs, INPUT_INDEP is the identity, and the result is one of the four
\* cases, with a non-empty set where the case carries one.
C5_MergeIsJoin ==
    ret.op # "none" =>
        LET r == ret.val
            x == operands[1]
        IN  /\ r.xy = r.yx
            /\ r.xy_z = r.x_yz
            /\ r.xx = x
            /\ r.xTop = InputDep
            /\ r.xBot = x
            /\ WellFormed(r.xy)
            /\ WellFormed(r.xy_z)
            /\ r.xy \in DepInfoSet

\* a merge of an argument-dependent and a value-dependent operand, neither
\* of which is the result
C5_Witness ==
    /\ ret.op = "addOnDependencyInfo"
    /\ isInputArgumentDep(operands[1])
    /\ operands[2].dependency = "VALUE_DEP"
    /\ ret.val.xy \notin {operands[1], operands[2]}
    /\ isInputArgumentDep(ret.val.xy)

====
